---- MODULE Spec2Model ----
(***************************************************************************)
(* Model of the generic Stack<T> of src/C++/stack.hh: a heap of buffers    *)
(* obtained with new T[n] and released with delete[], and Stack objects    *)
(* holding _base, _pointer (kept as the offset _pointer - _base) and       *)
(* _capacity.  Elements are sizeof(T) bytes wide and memcpy moves bytes.   *)
(***************************************************************************)
EXTENDS Integers, Sequences, FiniteSets, TLC

\* ---------------------------------------------------------------- bounds
MaxCap == 4          \* largest capacity handed to Stack(n) / allocate(n)
MaxPairCap == 2      \* largest capacity in the two-object specifications
MaxBufs == 3         \* buffer addresses the heap can hand out
MaxDepth == 3        \* largest n handed to pick(n) / roll(n)
MaxLifo == 2         \* longest push sequence tried for the LIFO law
MaxWideCap == 2      \* largest capacity when T is two bytes wide

\* ------------------------------------------------------------- constants
Byte == 0..1         \* values one byte of storage can hold
ValueOf(w) == [1..w -> Byte]   \* the values of an element type w bytes wide
NoVal == <<>>        \* "no value returned" (void, or an exception)
NULL == 0            \* nullptr
BufId == 1..MaxBufs
Objs == {"a", "b"}
AllObjs == Objs \cup {"copy"}   \* "copy": the local of operator=

VARIABLES heap,      \* the storage handed out by new T[n]
          stk,       \* the Stack objects: _base, _pointer - _base, _capacity
          res,       \* the last call: what it returned or threw
          sizeofT    \* sizeof(T) of the element type the template is used with
vars == <<heap, stk, res, sizeofT>>

\* ------------------------------------------------------------ the heap
FreeBuf == [st |-> "free", mem |-> <<>>]
NoObj == [st |-> "none", base |-> NULL, off |-> 0, capacity |-> 0]

\* Stack::size(): _pointer - _base
size(S, o) == S.stk[o].off

\* Stack::capacity()
capacity(S, o) == S.stk[o].capacity

\* the storage _base points to is allocated and not released
Live(S, o) == /\ S.stk[o].base # NULL
              /\ S.heap[S.stk[o].base].st = "live"

\* slot i of o's buffer exists
InBuf(S, o, i) == /\ Live(S, o)
                  /\ i >= 0
                  /\ (i + 1) * S.w <= Len(S.heap[S.stk[o].base].mem)

\* what goes wrong when slot i is accessed through _base
AccessFault(S, o, i) ==
    IF ~Live(S, o) THEN "released"
    ELSE IF ~InBuf(S, o, i) THEN "out_of_bounds"
    ELSE "none"

\* the first fault of two
Worst(f, g) == IF f # "none" THEN f ELSE g

\* _base[i] read: the stored bytes; outside live storage the build decides
\* (junk is that value)
ReadElem(S, o, i, junk) ==
    IF InBuf(S, o, i)
    THEN [k \in 1..S.w |-> S.heap[S.stk[o].base].mem[i * S.w + k]]
    ELSE junk

\* _base[i] = x: outside live storage the write is not observable here
WriteElem(S, o, i, x) ==
    IF InBuf(S, o, i)
    THEN [S EXCEPT !.heap[S.stk[o].base].mem =
            [b \in 1..Len(@) |->
                IF b > i * S.w /\ b <= (i + 1) * S.w
                THEN x[b - i * S.w] ELSE @[b]]]
    ELSE S

\* the result of one call: the state after it, how it ended, what it returned
Ret(S, status, val, fault) ==
    [S |-> S, status |-> status, val |-> val, fault |-> fault]

\* --------------------------------------------------- push / pop / peek
\* push with the bound test off by one (size > capacity)
push_Mut(S, o, x) ==
    IF size(S, o) > capacity(S, o)
    THEN Ret(S, "overflow_error", NoVal, "none")
    ELSE Ret([WriteElem(S, o, size(S, o), x) EXCEPT !.stk[o].off = @ + 1],
             "ok", NoVal, AccessFault(S, o, size(S, o)))

push(S, o, x) ==
    IF size(S, o) >= capacity(S, o)
    THEN Ret(S, "overflow_error", NoVal, "none")
    ELSE Ret([WriteElem(S, o, size(S, o), x) EXCEPT !.stk[o].off = @ + 1],
             "ok", NoVal, AccessFault(S, o, size(S, o)))

\* pop reading the slot before moving the pointer (*(_pointer--))
pop_Mut(S, o, junk) ==
    IF size(S, o) <= 0
    THEN Ret(S, "underflow_error", NoVal, "none")
    ELSE Ret([S EXCEPT !.stk[o].off = @ - 1], "ok",
             ReadElem(S, o, size(S, o), junk), AccessFault(S, o, size(S, o)))

pop(S, o, junk) ==
    IF size(S, o) <= 0
    THEN Ret(S, "underflow_error", NoVal, "none")
    ELSE LET S1 == [S EXCEPT !.stk[o].off = @ - 1]
         IN  Ret(S1, "ok", ReadElem(S1, o, size(S1, o), junk),
                 AccessFault(S1, o, size(S1, o)))

peek(S, o, junk) ==
    LET r1 == pop(S, o, junk)
        r2 == push(r1.S, o, r1.val)
    IN  IF r1.status # "ok" THEN r1
        ELSE Ret(r2.S, r2.status,
                 IF r2.status = "ok" THEN r1.val ELSE NoVal,
                 Worst(r1.fault, r2.fault))

\* --------------------------------------------------------- pick / roll
\* pick addressing the depth off by one (_pointer[-(int)n])
pick_Mut(S, o, n, junk) ==
    IF size(S, o) <= n
    THEN Ret(S, "underflow_error", NoVal, "none")
    ELSE LET i == size(S, o) - n
             r == push(S, o, ReadElem(S, o, i, junk))
         IN  IF r.status # "ok" THEN r
             ELSE Ret(r.S, "ok", NoVal, Worst(AccessFault(S, o, i), r.fault))

pick(S, o, n, junk) ==
    IF size(S, o) <= n
    THEN Ret(S, "underflow_error", NoVal, "none")
    ELSE LET i == size(S, o) - (n + 1)
             r == push(S, o, ReadElem(S, o, i, junk))
         IN  IF r.status # "ok" THEN r
             ELSE Ret(r.S, "ok", NoVal, Worst(AccessFault(S, o, i), r.fault))

drop(S, o, junk) ==
    LET r == pop(S, o, junk) IN Ret(r.S, r.status, NoVal, r.fault)

\* for(i = -(n+2); i <= -2; ++i) _pointer[i] = _pointer[i+1];
RECURSIVE RollLoop(_, _, _, _)
RollLoop(S, o, i, junk) ==
    IF i > -2 THEN S
    ELSE LET p == size(S, o)
         IN  RollLoop(WriteElem(S, o, p + i, ReadElem(S, o, p + i + 1, junk)),
                      o, i + 1, junk)

\* roll with the shift starting one slot too high (i = -(int)(n+1))
roll_Mut(S, o, n, junk) ==
    LET r1 == pick(S, o, n, junk)
        S2 == RollLoop(r1.S, o, -(n + 1), junk)
        r3 == drop(S2, o, junk)
    IN  IF r1.status # "ok" THEN r1
        ELSE Ret(r3.S, r3.status, NoVal, Worst(r1.fault, r3.fault))

roll(S, o, n, junk) ==
    LET r1 == pick(S, o, n, junk)
        S2 == RollLoop(r1.S, o, -(n + 2), junk)
        r3 == drop(S2, o, junk)
    IN  IF r1.status # "ok" THEN r1
        ELSE Ret(r3.S, r3.status, NoVal, Worst(r1.fault, r3.fault))

\* ------------------------------------------------- derived primitives
dup(S, o, junk) == pick(S, o, 0, junk)

\* swap that rolls one element too deep
swap_Mut(S, o, junk) == roll(S, o, 2, junk)

swap(S, o, junk) == roll(S, o, 1, junk)

over(S, o, junk) == pick(S, o, 1, junk)

rot(S, o, junk) == roll(S, o, 2, junk)

nip(S, o, junk) ==
    LET r1 == swap(S, o, junk)
        r2 == drop(r1.S, o, junk)
    IN  IF r1.status # "ok" THEN r1
        ELSE Ret(r2.S, r2.status, NoVal, Worst(r1.fault, r2.fault))

tuck(S, o, junk) ==
    LET r1 == swap(S, o, junk)
        r2 == over(r1.S, o, junk)
    IN  IF r1.status # "ok" THEN r1
        ELSE Ret(r2.S, r2.status, NoVal, Worst(r1.fault, r2.fault))

\* ------------------------------------------------- new[] / delete[] / memcpy
\* the address the next new T[n] returns
NewBuf(S) == CHOOSE id \in BufId :
                /\ S.heap[id].st = "free"
                /\ \A j \in BufId : S.heap[j].st = "free" => id <= j

HasFree(S) == \E id \in BufId : S.heap[id].st = "free"

\* new T[n]: n * sizeof(T) bytes nobody has written yet (g is what they hold)
New(S, id, n, g) ==
    [S EXCEPT !.heap[id] = [st |-> "live", mem |-> [b \in 1..(n * S.w) |-> g]]]

\* delete[] p
Delete(S, p) ==
    IF p = NULL THEN Ret(S, "ok", NoVal, "none")
    ELSE IF S.heap[p].st = "live"
    THEN Ret([S EXCEPT !.heap[p] = [st |-> "released", mem |-> <<>>]],
             "ok", NoVal, "none")
    ELSE IF S.heap[p].st = "released"
    THEN Ret(S, "ok", NoVal, "double_free")
    ELSE Ret(S, "ok", NoVal, "bad_free")

\* std::memcpy(dst, src, nbytes): bytes read outside live storage are g
Memcpy(S, dst, src, nbytes, g) ==
    [S EXCEPT !.heap[dst].mem =
        [b \in 1..Len(@) |->
            IF b <= nbytes
            THEN IF S.heap[src].st = "live" /\ b <= Len(S.heap[src].mem)
                 THEN S.heap[src].mem[b] ELSE g
            ELSE @[b]]]

MemcpyFault(S, src, nbytes) ==
    IF S.heap[src].st # "live" THEN "released"
    ELSE IF nbytes > Len(S.heap[src].mem) THEN "out_of_bounds"
    ELSE "none"

\* a released buffer no Stack points to any more: its address can be
\* handed out again
Collect(S) ==
    [S EXCEPT !.heap =
        [id \in BufId |->
            IF S.heap[id].st = "released"
               /\ \A o \in AllObjs : S.stk[o].base # id
            THEN FreeBuf ELSE S.heap[id]]]

\* ------------------------------------------------ allocate / clear / copy
\* the byte count handed to memcpy by allocate(n)
AllocCopyLen(cap, n, w) == IF cap > n THEN n ELSE cap * w

\* allocate with the offset clamped to the new capacity
allocate_Mut(S, o, n, g) ==
    LET memory == NewBuf(S)
        S1     == New(S, memory, n, g)
        offset == IF size(S, o) <= n THEN size(S, o) ELSE n
        old    == S.stk[o].base
        len    == AllocCopyLen(capacity(S, o), n, S.w)
        S2     == IF old # NULL THEN Memcpy(S1, memory, old, len, g) ELSE S1
        f2     == IF old # NULL THEN MemcpyFault(S1, old, len) ELSE "none"
        r3     == Delete(S2, old)
    IN  Ret([r3.S EXCEPT !.stk[o].base = memory,
                         !.stk[o].off = offset,
                         !.stk[o].capacity = n],
            "ok", NoVal, Worst(f2, r3.fault))

allocate(S, o, n, g) ==
    LET memory == NewBuf(S)
        S1     == New(S, memory, n, g)
        offset == size(S, o)
        old    == S.stk[o].base
        len    == AllocCopyLen(capacity(S, o), n, S.w)
        S2     == IF old # NULL THEN Memcpy(S1, memory, old, len, g) ELSE S1
        f2     == IF old # NULL THEN MemcpyFault(S1, old, len) ELSE "none"
        r3     == Delete(S2, old)
    IN  Ret([r3.S EXCEPT !.stk[o].base = memory,
                         !.stk[o].off = offset,
                         !.stk[o].capacity = n],
            "ok", NoVal, Worst(f2, r3.fault))

\* Stack(unsigned size = 0), constructing the object in slot o
Stack(S, o, n, g) ==
    allocate([S EXCEPT !.stk[o] =
                [st |-> "live", base |-> NULL, off |-> 0, capacity |-> 0]],
             o, n, g)

\* the byte count handed to memcpy by allocate(n) of the size_t variant
AllocCopyLen2(cap, n, w) == (IF cap > n THEN n ELSE cap) * w

\* allocate(size_t size) of the size_t variant
allocate2(S, o, n, g) ==
    LET memory == NewBuf(S)
        S1     == New(S, memory, n, g)
        offset == size(S, o)
        old    == S.stk[o].base
        len    == AllocCopyLen2(capacity(S, o), n, S.w)
        S2     == IF old # NULL THEN Memcpy(S1, memory, old, len, g) ELSE S1
        f2     == IF old # NULL THEN MemcpyFault(S1, old, len) ELSE "none"
        r3     == Delete(S2, old)
    IN  Ret([r3.S EXCEPT !.stk[o].base = memory,
                         !.stk[o].off = offset,
                         !.stk[o].capacity = n],
            "ok", NoVal, Worst(f2, r3.fault))

\* Stack(size_t size = 0) of the size_t variant
Stack2(S, o, n, g) ==
    allocate2([S EXCEPT !.stk[o] =
                 [st |-> "live", base |-> NULL, off |-> 0, capacity |-> 0]],
              o, n, g)

\* clear that also forgets the capacity
clear_Mut(S, o) ==
    Ret([S EXCEPT !.stk[o].off = 0, !.stk[o].capacity = 0], "ok", NoVal, "none")

clear(S, o) == Ret([S EXCEPT !.stk[o].off = 0], "ok", NoVal, "none")

\* copy sharing the source's buffer instead of filling its own
copy_Mut(S, o, d, g) ==
    Ret([S EXCEPT !.stk[d] = S.stk[o]], "ok", NoVal, "none")

\* Stack copy(void) const, its result constructed in slot d
copy(S, o, d, g) ==
    LET r1  == Stack(S, d, capacity(S, o), g)
        len == capacity(S, o) * S.w
        S2  == Memcpy(r1.S, r1.S.stk[d].base, S.stk[o].base, len, g)
        f2  == MemcpyFault(r1.S, S.stk[o].base, len)
    IN  Ret([S2 EXCEPT !.stk[d].off = @ + size(S, o)],
            "ok", NoVal, Worst(r1.fault, f2))

\* ~Stack(void)
Destructor(S, o) ==
    LET r == Delete(S, S.stk[o].base)
    IN  Ret([r.S EXCEPT !.stk[o] = NoObj], "ok", NoVal, r.fault)

\* void operator =(const Stack &stack), d = o
Assign(S, d, o, g) ==
    LET r1 == Delete(S, S.stk[d].base)
        r2 == copy(r1.S, o, "copy", g)
        S3 == [r2.S EXCEPT !.stk[d].base = r2.S.stk["copy"].base,
                           !.stk[d].off = r2.S.stk["copy"].off,
                           !.stk[d].capacity = r2.S.stk["copy"].capacity]
        r4 == Destructor(S3, "copy")
    IN  Ret(r4.S, "ok", NoVal, Worst(r1.fault, Worst(r2.fault, r4.fault)))

\* Stack(const Stack &stack), constructing d from o: the members are not
\* initialised before operator= tests and deletes _base (p is what it holds)
CopyCtor(S, d, o, p, g) ==
    Assign([S EXCEPT !.stk[d] =
                [st |-> "live", base |-> p, off |-> 0, capacity |-> 0]],
           d, o, g)

\* ------------------------------------------------------------- actions
Cur == [heap |-> heap, stk |-> stk, w |-> sizeofT]

Value == ValueOf(sizeofT)

\* what a read outside live storage can yield in a call on o: any value when
\* such a read can happen (released buffer, or size above capacity), and
\* nothing to choose when every access of the call stays inside the buffer
Junk(o) ==
    IF Live(Cur, o) /\ size(Cur, o) <= capacity(Cur, o) THEN {NoVal} ELSE Value

Exists(o) == stk[o].st = "live"

\* one call returned r
Done(op, o, arg, r) ==
    /\ heap' = Collect(r.S).heap
    /\ stk' = r.S.stk
    /\ res' = [op |-> op, obj |-> o, arg |-> arg, status |-> r.status, val |-> r.val,
               fault |-> r.fault, other |-> NoVal]
    /\ UNCHANGED sizeofT

\* the same call made on "a" (unsigned variant, returned ra) and then on "b"
\* (size_t variant, returned rb)
DoneBoth(op, arg, ra, rb) ==
    /\ heap' = Collect(rb.S).heap
    /\ stk' = rb.S.stk
    /\ res' = [op |-> op, obj |-> "a", arg |-> arg, status |-> ra.status,
               val |-> ra.val, fault |-> ra.fault,
               other |-> [status |-> rb.status, val |-> rb.val]]
    /\ UNCHANGED sizeofT

Construct(o, n) ==
    /\ ~Exists(o)
    /\ HasFree(Cur)
    /\ \E g \in Byte : Done("Stack", o, n, Stack(Cur, o, n, g))

Allocate(o, n) ==
    /\ Exists(o)
    /\ HasFree(Cur)
    /\ \E g \in Byte : Done("allocate", o, n, allocate(Cur, o, n, g))

Clear(o) == Exists(o) /\ Done("clear", o, NoVal, clear(Cur, o))

Push(o) == Exists(o) /\ \E x \in Value : Done("push", o, x, push(Cur, o, x))

Pop(o) == Exists(o) /\ \E junk \in Junk(o) : Done("pop", o, NoVal, pop(Cur, o, junk))

Peek(o) == Exists(o) /\ \E junk \in Junk(o) : Done("peek", o, NoVal, peek(Cur, o, junk))

Pick(o, n) == Exists(o) /\ \E junk \in Junk(o) : Done("pick", o, n, pick(Cur, o, n, junk))

Roll(o, n) == Exists(o) /\ \E junk \in Junk(o) : Done("roll", o, n, roll(Cur, o, n, junk))

Dup(o) == Exists(o) /\ \E junk \in Junk(o) : Done("dup", o, NoVal, dup(Cur, o, junk))

Drop(o) == Exists(o) /\ \E junk \in Junk(o) : Done("drop", o, NoVal, drop(Cur, o, junk))

Swap(o) == Exists(o) /\ \E junk \in Junk(o) : Done("swap", o, NoVal, swap(Cur, o, junk))

Over(o) == Exists(o) /\ \E junk \in Junk(o) : Done("over", o, NoVal, over(Cur, o, junk))

Rot(o) == Exists(o) /\ \E junk \in Junk(o) : Done("rot", o, NoVal, rot(Cur, o, junk))

Nip(o) == Exists(o) /\ \E junk \in Junk(o) : Done("nip", o, NoVal, nip(Cur, o, junk))

Tuck(o) == Exists(o) /\ \E junk \in Junk(o) : Done("tuck", o, NoVal, tuck(Cur, o, junk))

Destroy(o) == Exists(o) /\ Done("~Stack", o, NoVal, Destructor(Cur, o))

\* Stack d = o.copy();
CopyInit(d, o) ==
    /\ Exists(o)
    /\ ~Exists(d)
    /\ HasFree(Cur)
    /\ \E g \in Byte : Done("copy", d, o, copy(Cur, o, d, g))

\* d = o;
AssignTo(d, o) ==
    /\ Exists(d)
    /\ Exists(o)
    /\ HasFree(Cur)
    /\ \E g \in Byte : Done("operator=", d, o, Assign(Cur, d, o, g))

\* Stack d(o);
CopyConstruct(d, o) ==
    /\ Exists(o)
    /\ ~Exists(d)
    /\ HasFree(Cur)
    /\ \E g \in Byte, p \in {NULL} \cup BufId :
          Done("Stack(const Stack&)", d, o, CopyCtor(Cur, d, o, p, g))

NoRes == [op |-> "none", obj |-> "none", arg |-> NoVal, status |-> "ok",
          val |-> NoVal, fault |-> "none", other |-> NoVal]

\* no Stack constructed yet; T is one byte wide
Init ==
    /\ sizeofT = 1
    /\ heap = [id \in BufId |-> FreeBuf]
    /\ stk = [o \in AllObjs |-> NoObj]
    /\ res = NoRes

\* one Stack object, every operation of the class on it
Next ==
    \/ \E n \in 0..MaxCap : Construct("a", n)
    \/ \E n \in 0..MaxCap : Allocate("a", n)
    \/ Clear("a")
    \/ Push("a")
    \/ Pop("a")
    \/ Peek("a")
    \/ \E n \in 0..MaxDepth : Pick("a", n)
    \/ \E n \in 0..MaxDepth : Roll("a", n)
    \/ Dup("a")
    \/ Drop("a")
    \/ Swap("a")
    \/ Over("a")
    \/ Rot("a")
    \/ Nip("a")
    \/ Tuck("a")
    \/ Destroy("a")

Spec == Init /\ [][Next]_vars

\* two Stack objects, each built by Stack(n) or as a copy() of the other
NextCopy ==
    \/ \E o \in Objs, n \in 0..MaxPairCap : Construct(o, n)
    \/ \E o \in Objs, n \in 0..MaxPairCap : Allocate(o, n)
    \/ \E o \in Objs : Clear(o)
    \/ \E o \in Objs : Push(o)
    \/ \E o \in Objs : Pop(o)
    \/ \E o \in Objs : Peek(o)
    \/ \E o \in Objs, n \in 0..(MaxPairCap - 1) : Pick(o, n)
    \/ \E o \in Objs, n \in 0..(MaxPairCap - 1) : Roll(o, n)
    \/ \E o \in Objs : Destroy(o)
    \/ \E d \in Objs, o \in Objs : CopyInit(d, o)

SpecCopy == Init /\ [][NextCopy]_vars

\* the same, and copy-assignment between the two objects
NextAssign ==
    \/ NextCopy
    \/ \E d \in Objs, o \in Objs : AssignTo(d, o)
    \/ \E d \in Objs, o \in Objs : CopyConstruct(d, o)

SpecAssign == Init /\ [][NextAssign]_vars

\* no Stack constructed yet; T is two bytes wide
InitWide ==
    /\ sizeofT = 2
    /\ heap = [id \in BufId |-> FreeBuf]
    /\ stk = [o \in AllObjs |-> NoObj]
    /\ res = NoRes

\* one Stack object of two-byte elements
NextWide ==
    \/ \E n \in 0..MaxWideCap : Construct("a", n)
    \/ \E n \in 0..MaxWideCap : Allocate("a", n)
    \/ Clear("a")
    \/ Push("a")
    \/ Pop("a")
    \/ Peek("a")
    \/ Destroy("a")

SpecWide == InitWide /\ [][NextWide]_vars

\* both variants of the class constructed with the same capacity
BothConstruct(n) ==
    /\ ~Exists("a") /\ ~Exists("b")
    /\ \E g \in Byte :
          LET ra == Stack(Cur, "a", n, g)
              rb == Stack2(Collect(ra.S), "b", n, g)
          IN  DoneBoth("Stack", n, ra, rb)

BothAllocate(n) ==
    /\ Exists("a") /\ Exists("b")
    /\ HasFree(Cur)
    /\ \E g \in Byte :
          LET ra == allocate(Cur, "a", n, g)
              rb == allocate2(Collect(ra.S), "b", n, g)
          IN  DoneBoth("allocate", n, ra, rb)

BothClear ==
    /\ Exists("a") /\ Exists("b")
    /\ LET ra == clear(Cur, "a") IN DoneBoth("clear", NoVal, ra, clear(ra.S, "b"))

BothPush ==
    /\ Exists("a") /\ Exists("b")
    /\ \E x \in Value :
          LET ra == push(Cur, "a", x) IN DoneBoth("push", x, ra, push(ra.S, "b", x))

BothPop ==
    /\ Exists("a") /\ Exists("b")
    /\ \E junk \in Junk("a") :
          LET ra == pop(Cur, "a", junk)
          IN  DoneBoth("pop", NoVal, ra, pop(ra.S, "b", junk))

BothPeek ==
    /\ Exists("a") /\ Exists("b")
    /\ \E junk \in Junk("a") :
          LET ra == peek(Cur, "a", junk)
          IN  DoneBoth("peek", NoVal, ra, peek(ra.S, "b", junk))

BothPick(n) ==
    /\ Exists("a") /\ Exists("b")
    /\ \E junk \in Junk("a") :
          LET ra == pick(Cur, "a", n, junk)
          IN  DoneBoth("pick", n, ra, pick(ra.S, "b", n, junk))

BothRoll(n) ==
    /\ Exists("a") /\ Exists("b")
    /\ \E junk \in Junk("a") :
          LET ra == roll(Cur, "a", n, junk)
          IN  DoneBoth("roll", n, ra, roll(ra.S, "b", n, junk))

\* the two variants run side by side on the same calls, T two bytes wide
NextBoth ==
    \/ \E n \in 0..MaxWideCap : BothConstruct(n)
    \/ \E n \in 0..MaxWideCap : BothAllocate(n)
    \/ BothClear
    \/ BothPush
    \/ BothPop
    \/ BothPeek
    \/ \E n \in 0..(MaxWideCap - 1) : BothPick(n)
    \/ \E n \in 0..(MaxWideCap - 1) : BothRoll(n)

SpecBoth == InitWide /\ [][NextBoth]_vars

TypeOK ==
    /\ \A o \in AllObjs : stk[o].base \in {NULL} \cup BufId
    /\ stk["copy"] = NoObj

\* ------------------------------------------------- what the claims speak of
Nxt == [heap |-> heap', stk |-> stk', w |-> sizeofT']

Min(x, y) == IF x <= y THEN x ELSE y

\* the elements of o, bottom first: the slots below size that the buffer has
Elems(S, o) ==
    [i \in 1..Min(size(S, o), capacity(S, o)) |-> ReadElem(S, o, i - 1, NoVal)]

\* size, capacity and elements of o are the same before and after the step
SameStack(o) ==
    /\ size(Nxt, o) = size(Cur, o)
    /\ capacity(Nxt, o) = capacity(Cur, o)
    /\ Elems(Nxt, o) = Elems(Cur, o)

Reverse(q) == [i \in 1..Len(q) |-> q[Len(q) + 1 - i]]

\* push(vs[1]); push(vs[2]); ...
RECURSIVE PushAll(_, _, _)
PushAll(S, o, vs) ==
    IF vs = <<>> THEN Ret(S, "ok", NoVal, "none")
    ELSE LET r == push(S, o, Head(vs))
         IN  IF r.status # "ok" THEN r ELSE PushAll(r.S, o, Tail(vs))

\* k times pop(), collecting what is returned (first popped first)
RECURSIVE PopAll(_, _, _)
PopAll(S, o, k) ==
    IF k = 0 THEN Ret(S, "ok", <<>>, "none")
    ELSE LET r    == pop(S, o, NoVal)
             rest == PopAll(r.S, o, k - 1)
         IN  IF r.status # "ok" THEN Ret(r.S, r.status, <<>>, r.fault)
             ELSE Ret(rest.S, rest.status, <<r.val>> \o rest.val,
                      Worst(r.fault, rest.fault))

\* ------------------------------------------------------------------ C1
\* C1: in every reachable state the size of a stack is at most its capacity.
C1_SizeWithinCapacity ==
    \A o \in Objs : Exists(o) => size(Cur, o) <= capacity(Cur, o)

\* ------------------------------------------------------------------ C2
\* C2: LIFO law: k pushes onto a stack with at least k free slots succeed,
\* the next k pops succeed and return the pushed values in reverse order,
\* and size and the elements below are then what they were before.
C2_LifoLaw ==
    \A o \in Objs : \A k \in 0..MaxLifo : \A vs \in [1..k -> Value] :
        (Exists(o) /\ size(Cur, o) + k <= capacity(Cur, o)) =>
            LET p == PushAll(Cur, o, vs)
                q == PopAll(p.S, o, k)
            IN  /\ p.status = "ok"
                /\ size(p.S, o) = size(Cur, o) + k
                /\ q.status = "ok"
                /\ q.val = Reverse(vs)
                /\ q.fault = "none"
                /\ size(q.S, o) = size(Cur, o)
                /\ capacity(q.S, o) = capacity(Cur, o)
                /\ Elems(q.S, o) = Elems(Cur, o)

\* a push was followed by a pop that returned the pushed value, on a stack
\* that still has elements below and room for MaxLifo more
C2_Witness ==
    /\ res.op = "pop" /\ res.status = "ok" /\ res.val \in Value
    /\ Exists("a")
    /\ size(Cur, "a") >= 1
    /\ size(Cur, "a") + MaxLifo <= capacity(Cur, "a")

\* ------------------------------------------------------------------ C3
\* C3: push(v) fails with overflow_error when size == capacity and leaves
\* size, capacity and elements as they were; with size < capacity it stores
\* v as the new top and size grows by exactly 1; pop and peek fail with
\* underflow_error when size == 0.
C3_PushPopErrors ==
    [][ /\ res'.op = "push" =>
              /\ size(Cur, res'.obj) = capacity(Cur, res'.obj) =>
                    /\ res'.status = "overflow_error"
                    /\ SameStack(res'.obj)
              /\ size(Cur, res'.obj) < capacity(Cur, res'.obj) =>
                    /\ res'.status = "ok"
                    /\ size(Nxt, res'.obj) = size(Cur, res'.obj) + 1
                    /\ capacity(Nxt, res'.obj) = capacity(Cur, res'.obj)
                    /\ Elems(Nxt, res'.obj) = Append(Elems(Cur, res'.obj), res'.arg)
        /\ (res'.op \in {"pop", "peek"} /\ size(Cur, res'.obj) = 0) =>
              res'.status = "underflow_error" /\ SameStack(res'.obj)
      ]_vars

\* a push was refused on a full stack that holds elements
C3_Witness ==
    /\ res.op = "push" /\ res.status = "overflow_error"
    /\ Exists("a")
    /\ size(Cur, "a") = capacity(Cur, "a")
    /\ capacity(Cur, "a") > 0

\* ------------------------------------------------------------------ C4
\* C4: whenever a stack operation fails with overflow_error or
\* underflow_error, size, capacity and the elements below size are the
\* same as before the call.
C4_FailureChangesNothing ==
    [][ res'.status # "ok" => SameStack(res'.obj) ]_vars

\* ------------------------------------------------------------------ C5
\* C5 (as stated): pick(n) on a stack of size s fails with underflow_error
\* iff s <= n, and for every s > n it succeeds, pushes a copy of the element
\* at index s-1-n, grows size by exactly 1 and leaves the others unchanged.
C5_PickSucceedsIfDeepEnough ==
    [][ res'.op = "pick" =>
          LET n == res'.arg
              s == size(Cur, res'.obj)
          IN  /\ res'.status = "underflow_error" <=> s <= n
              /\ s > n =>
                    /\ res'.status = "ok"
                    /\ size(Nxt, res'.obj) = s + 1
                    /\ capacity(Nxt, res'.obj) = capacity(Cur, res'.obj)
                    /\ Elems(Nxt, res'.obj) =
                          Append(Elems(Cur, res'.obj), Elems(Cur, res'.obj)[s - n])
      ]_vars

\* C5 (amended): pick(n) on a stack of size s fails with underflow_error
\* iff s <= n; for s > n it fails with overflow_error when s >= capacity,
\* and otherwise succeeds, pushes a copy of the element at index s-1-n,
\* grows size by exactly 1 and leaves the others unchanged; a failing pick
\* changes nothing.
C5_Pick ==
    [][ res'.op = "pick" =>
          LET n == res'.arg
              s == size(Cur, res'.obj)
              c == capacity(Cur, res'.obj)
          IN  /\ res'.status = "underflow_error" <=> s <= n
              /\ res'.status = "overflow_error" <=> (s > n /\ s >= c)
              /\ res'.status # "ok" => SameStack(res'.obj)
              /\ (s > n /\ s < c) =>
                    /\ res'.status = "ok"
                    /\ size(Nxt, res'.obj) = s + 1
                    /\ capacity(Nxt, res'.obj) = c
                    /\ Elems(Nxt, res'.obj) =
                          Append(Elems(Cur, res'.obj), Elems(Cur, res'.obj)[s - n])
      ]_vars

\* pick(1) has copied the second element from the top, which differs from
\* the element it was laid over
C5_Witness ==
    /\ res.op = "pick" /\ res.arg = 1 /\ res.status = "ok"
    /\ Exists("a")
    /\ size(Cur, "a") = 3
    /\ Elems(Cur, "a")[3] = Elems(Cur, "a")[1]
    /\ Elems(Cur, "a")[3] # Elems(Cur, "a")[2]

\* ------------------------------------------------------------------ C6
\* C6: when roll(n) succeeds on a stack of size s > n, the element that was
\* at depth n is the new top, every element that was at depth d < n is at
\* depth d+1, every element deeper than n is unchanged and size is still s.
C6_Roll ==
    [][ (res'.op = "roll" /\ res'.status = "ok") =>
          LET n  == res'.arg
              s  == size(Cur, res'.obj)
              e  == Elems(Cur, res'.obj)
              e2 == Elems(Nxt, res'.obj)
          IN  /\ s > n
              /\ size(Nxt, res'.obj) = s
              /\ capacity(Nxt, res'.obj) = capacity(Cur, res'.obj)
              /\ Len(e2) = s
              /\ e2[s] = e[s - n]
              /\ \A d \in 0..(n - 1) : e2[s - (d + 1)] = e[s - d]
              /\ \A i \in 1..(s - n - 1) : e2[i] = e[i]
      ]_vars

\* roll(2) has brought the bottom element of three to the top, and the
\* three are not all equal
C6_Witness ==
    /\ res.op = "roll" /\ res.arg = 2 /\ res.status = "ok"
    /\ Exists("a")
    /\ size(Cur, "a") = 3
    /\ Elems(Cur, "a")[3] # Elems(Cur, "a")[2]
    /\ Elems(Cur, "a")[1] = Elems(Cur, "a")[2]

\* ------------------------------------------------------------------ C7
\* elements a call of op needs on the stack
Need(op, arg) ==
    CASE op = "roll" -> arg + 1
      [] op = "dup" -> 1
      [] op = "drop" -> 1
      [] op \in {"swap", "over", "nip", "tuck"} -> 2
      [] op = "rot" -> 3
      [] OTHER -> 0

\* C7: roll(n) and the primitives built on it fail only with
\* underflow_error and only when the stack holds too few elements; stated
\* for the calls that do not grow the stack: roll, swap, rot and nip succeed
\* on a stack with enough elements whatever its capacity, also when
\* size == capacity.
C7_RollFailsOnlyOnUnderflow ==
    [][ res'.op \in {"roll", "swap", "rot", "nip"} =>
          /\ res'.status \in {"ok", "underflow_error"}
          /\ res'.status = "underflow_error" <=>
                size(Cur, res'.obj) < Need(res'.op, res'.arg)
      ]_vars

\* ------------------------------------------------------------------ C8
\* the stack the table promises after op on elements e (top last)
TableEffect(op, e) ==
    LET s == Len(e)
        x == e[s - 1]
        y == e[s]
    IN  CASE op = "dup"  -> Append(e, e[s])
          [] op = "drop" -> SubSeq(e, 1, s - 1)
          [] op = "swap" -> SubSeq(e, 1, s - 2) \o <<y, x>>
          [] op = "over" -> e \o <<x>>
          [] op = "rot"  -> SubSeq(e, 1, s - 3) \o <<x, y, e[s - 2]>>
          [] op = "nip"  -> SubSeq(e, 1, s - 2) \o <<y>>
          [] op = "tuck" -> SubSeq(e, 1, s - 2) \o <<y, x, y>>

\* C8: on a stack holding enough elements each derived primitive has
\* exactly its table effect on the top of the stack and leaves every deeper
\* element unchanged (stated here for the primitives that do not grow the
\* stack: drop, swap, rot, nip).
C8_TableEffects ==
    [][ (/\ res'.op \in {"drop", "swap", "rot", "nip"}
         /\ size(Cur, res'.obj) >= Need(res'.op, res'.arg)
         /\ size(Cur, res'.obj) <= capacity(Cur, res'.obj)) =>
          /\ res'.status = "ok"
          /\ Elems(Nxt, res'.obj) = TableEffect(res'.op, Elems(Cur, res'.obj))
          /\ size(Nxt, res'.obj) = Len(Elems(Nxt, res'.obj))
      ]_vars

\* ------------------------------------------------------------------ C9
\* C9: copy() yields a stack with the size, the capacity and the element
\* sequence of the source in a buffer of its own, and a call on either of
\* two stacks leaves size, capacity and elements of the other unchanged.
C9_CopyIndependent ==
    [][ /\ res'.op = "copy" =>
              LET d == res'.obj
                  o == res'.arg
              IN  /\ size(Nxt, d) = size(Cur, o)
                  /\ capacity(Nxt, d) = capacity(Cur, o)
                  /\ Elems(Nxt, d) = Elems(Cur, o)
                  /\ Live(Nxt, d)
                  /\ Live(Nxt, o)
                  /\ stk'[d].base # stk'[o].base
        /\ \A p \in Objs :
              (p # res'.obj /\ Exists(p)) =>
                  /\ stk'[p] = stk[p]
                  /\ heap'[stk[p].base] = heap[stk[p].base]
      ]_vars

\* b has just been made a copy of a, which holds two different elements
C9_Witness ==
    /\ res.op = "copy" /\ res.obj = "b" /\ res.arg = "a"
    /\ size(Cur, "a") = 2
    /\ size(Cur, "b") = 2
    /\ Elems(Cur, "b") = Elems(Cur, "a")
    /\ Elems(Cur, "a")[1] # Elems(Cur, "a")[2]
    /\ stk["a"].base # stk["b"].base

\* ----------------------------------------------------------------- C10
\* C10: after d = o between two distinct stacks, d has o's size, capacity
\* and elements in a buffer that is still allocated and is not o's.
C10_AssignLeavesLiveCopy ==
    [][ (res'.op = "operator=" /\ res'.obj # res'.arg) =>
              LET d == res'.obj
                  o == res'.arg
              IN  /\ size(Nxt, d) = size(Cur, o)
                  /\ capacity(Nxt, d) = capacity(Cur, o)
                  /\ stk'[d].base # stk'[o].base
                  /\ Live(Nxt, d)
                  /\ Elems(Nxt, d) = Elems(Cur, o)
      ]_vars

\* ----------------------------------------------------------------- C11
\* C11: self-assignment a = a reads no released storage at any step, and
\* afterwards a has the size, capacity and elements it had, in live storage.
C11_SelfAssignSafe ==
    [][ (res'.op = "operator=" /\ res'.obj = res'.arg /\ Live(Cur, res'.obj)) =>
              /\ res'.fault = "none"
              /\ Live(Nxt, res'.obj)
              /\ SameStack(res'.obj)
      ]_vars

\* ----------------------------------------------------------------- C12
\* C12: every live Stack's buffer is allocated and not released, no other
\* live Stack holds it, and no delete[] is given a buffer that was released
\* before or never allocated.
C12_ExclusiveOwnership ==
    /\ \A o \in Objs : Exists(o) =>
          /\ Live(Cur, o)
          /\ \A q \in Objs \ {o} : Exists(q) => stk[q].base # stk[o].base
    /\ res.fault \notin {"double_free", "bad_free"}

\* ----------------------------------------------------------------- C13
\* C13: in any reachable state with size > 0, peek() succeeds, returns the
\* current top value and leaves size, capacity and all elements unchanged
\* (so any number of consecutive calls do).
C13_PeekIdempotent ==
    [][ (res'.op = "peek" /\ size(Cur, res'.obj) > 0) =>
              /\ res'.status = "ok"
              /\ res'.val = ReadElem(Cur, res'.obj, size(Cur, res'.obj) - 1, NoVal)
              /\ res'.fault = "none"
              /\ SameStack(res'.obj)
      ]_vars

\* ----------------------------------------------------------------- C14
\* C14: allocate(n) on a stack of capacity c leaves the first min(c, n)
\* buffer slots holding the same whole elements in the same order, growing
\* or shrinking, for any element width, and capacity() is n afterwards.
C14_AllocatePreservesSlots ==
    [][ res'.op = "allocate" =>
          LET o == res'.obj
          IN  /\ capacity(Nxt, o) = res'.arg
              /\ \A i \in 0..(Min(capacity(Cur, o), res'.arg) - 1) :
                    ReadElem(Nxt, o, i, NoVal) = ReadElem(Cur, o, i, NoVal)
      ]_vars

\* ----------------------------------------------------------------- C18
\* C18: the unsigned variant ("a") and the size_t variant ("b"), run side by
\* side on the same calls with an element type wider than one byte, return
\* the same values and errors and always have the same size, capacity and
\* slot contents below min(size, capacity).
C18_VariantsAgree ==
    (Exists("a") /\ Exists("b") /\ res.other # NoVal) =>
        /\ res.other.status = res.status
        /\ res.other.val = res.val
        /\ size(Cur, "b") = size(Cur, "a")
        /\ capacity(Cur, "b") = capacity(Cur, "a")
        /\ Elems(Cur, "b") = Elems(Cur, "a")

\* ----------------------------------------------------------------- C15
\* C15: clear() sets size to 0 and leaves capacity and every buffer slot's
\* value unchanged; after clear() a stack of capacity c accepts exactly c
\* pushes, and the push after those fails with overflow_error.
C15_Clear ==
    [][ res'.op = "clear" =>
          LET o == res'.obj
              c == capacity(Cur, o)
          IN  /\ size(Nxt, o) = 0
              /\ capacity(Nxt, o) = c
              /\ stk'[o].base = stk[o].base
              /\ heap'[stk[o].base] = heap[stk[o].base]
              /\ \A vs \in [1..c -> Value] : \A p \in {PushAll(Nxt, o, vs)} :
                    /\ p.status = "ok"
                    /\ size(p.S, o) = c
                    /\ Elems(p.S, o) = vs
                    /\ \A x \in Value : push(p.S, o, x).status = "overflow_error"
      ]_vars

\* clear() has emptied a stack of capacity 2 or more whose buffer still
\* holds two different values
C15_Witness ==
    /\ res.op = "clear"
    /\ Exists("a")
    /\ size(Cur, "a") = 0
    /\ capacity(Cur, "a") >= 2
    /\ ReadElem(Cur, "a", 0, NoVal) # ReadElem(Cur, "a", 1, NoVal)

\* ----------------------------------------------------------------- C16
\* C16: allocate(n) never changes size(): the offset after the call is the
\* offset before it for every n, also for n smaller than the current size;
\* a freshly constructed Stack(c) has size 0 and capacity c.
C16_AllocateKeepsSize ==
    [][ /\ res'.op = "allocate" =>
              /\ res'.status = "ok"
              /\ size(Nxt, res'.obj) = size(Cur, res'.obj)
        /\ res'.op = "Stack" =>
              /\ res'.status = "ok"
              /\ size(Nxt, res'.obj) = 0
              /\ capacity(Nxt, res'.obj) = res'.arg
      ]_vars

\* allocate(n) was called with n smaller than the size, which it kept
C16_Witness ==
    /\ res.op = "allocate"
    /\ Exists("a")
    /\ res.arg < size(Cur, "a")
    /\ capacity(Cur, "a") = res.arg

\* ----------------------------------------------------------------- C17
\* C17: bounds safety: every element read or write done by push, pop, peek,
\* pick and roll touches a buffer index in [0, capacity); an access that
\* would fall outside is signalled as an error instead of being performed.
C17_BoundsSafety ==
    res.op \in {"push", "pop", "peek", "pick", "roll"} => res.fault = "none"

\* ----------------------------------------------------------------- C19
\* roll(n) applied k times
RECURSIVE RollTimes(_, _, _, _)
RollTimes(S, o, n, k) ==
    IF k = 0 THEN Ret(S, "ok", NoVal, "none")
    ELSE LET r    == roll(S, o, n, NoVal)
             rest == RollTimes(r.S, o, n, k - 1)
         IN  IF r.status # "ok" THEN r
             ELSE Ret(rest.S, rest.status, NoVal, Worst(r.fault, rest.fault))

\* r succeeded without fault and left size, capacity and elements of o as
\* they are in the current state
Restores(r, o) ==
    /\ r.status = "ok"
    /\ r.fault = "none"
    /\ size(r.S, o) = size(Cur, o)
    /\ capacity(r.S, o) = capacity(Cur, o)
    /\ Elems(r.S, o) = Elems(Cur, o)

\* C19: rotation algebra: on a stack with enough elements and at least one
\* free slot, roll(0) leaves the stack unchanged, swap applied twice and rot
\* applied three times restore the element sequence, and roll(n) applied
\* n+1 times is the identity on size and elements.
C19_RotationAlgebra ==
    \A o \in Objs :
        (Exists(o) /\ size(Cur, o) < capacity(Cur, o)) =>
            /\ size(Cur, o) >= 1 => Restores(roll(Cur, o, 0, NoVal), o)
            /\ size(Cur, o) >= 2 =>
                  Restores(swap(swap(Cur, o, NoVal).S, o, NoVal), o)
            /\ size(Cur, o) >= 3 =>
                  Restores(rot(rot(rot(Cur, o, NoVal).S, o, NoVal).S, o, NoVal), o)
            /\ \A n \in 0..MaxDepth :
                  size(Cur, o) > n => Restores(RollTimes(Cur, o, n, n + 1), o)

\* rot has just turned three elements that are not all equal, on a stack
\* with a free slot
C19_Witness ==
    /\ res.op = "rot" /\ res.status = "ok"
    /\ Exists("a")
    /\ size(Cur, "a") = 3
    /\ size(Cur, "a") < capacity(Cur, "a")
    /\ Elems(Cur, "a")[1] # Elems(Cur, "a")[2]

====
